---- MODULE Spec2Model ----
(***************************************************************************)
(* Model of the Reddit bridge forwarder (api/reddit-mcp.ts): one HTTP      *)
(* handler that checks the method, the optional wrapper key and the        *)
(* upstream URL, reads and validates the JSON body, forwards a normalised  *)
(* payload to the bridge and relays the bridge's reply.                    *)
(*                                                                         *)
(* Texts (request bodies, upstream bodies, serialised responses) are       *)
(* sequences of lexical units; JSON.parse and JSON.stringify are modelled  *)
(* as a recursive-descent parser and a serialiser over these units.        *)
(* Insignificant whitespace (the indentation JSON.stringify(_, null, 2)    *)
(* emits) is not represented.  The repository holds the handler twice, as  *)
(* a default-exported function and as the fetch method of a default-       *)
(* exported object; the two bodies are the same statement for statement.   *)
(***************************************************************************)
EXTENDS Integers, Sequences, FiniteSets, TLC

(***************************************************************************)
(* Bounds of the model.                                                    *)
(***************************************************************************)
\* longest enumerated upstream body, in lexical units
MaxTextLen == 2
\* number of invocations the runtime runs concurrently (ConcSpec)
NumInvocations == 2

(***************************************************************************)
(* Lexical units of a text.  c: class ("p" punctuation or quote,           *)
(* "w" a run of letters, "num" a number, "esc" an escaped character).      *)
(***************************************************************************)
P(s) == [c |-> "p", s |-> s, n |-> 0]
W(s) == [c |-> "w", s |-> s, n |-> 0]
N(n) == [c |-> "num", s |-> "", n |-> n]
Esc(s) == [c |-> "esc", s |-> s, n |-> 0]
Q == P("\"")
LBrace == P("{")
RBrace == P("}")
LBracket == P("[")
RBracket == P("]")
Colon == P(":")
Comma == P(",")

(***************************************************************************)
(* JavaScript values.  Every value has the same shape so that values of    *)
(* different kinds can be compared: kind is one of "undefined", "null",    *)
(* "bool", "num", "str", "arr", "obj"; num holds a number (or 1/0 for a    *)
(* boolean), chars the characters of a string, keys/items the entries of   *)
(* an object or the elements of an array.                                  *)
(***************************************************************************)
Val(k, n, cs, ks, its) == [kind |-> k, num |-> n, chars |-> cs, keys |-> ks, items |-> its]
Undefined == Val("undefined", 0, <<>>, <<>>, <<>>)
Null == Val("null", 0, <<>>, <<>>, <<>>)
Bool(b) == Val("bool", IF b THEN 1 ELSE 0, <<>>, <<>>, <<>>)
Num(n) == Val("num", n, <<>>, <<>>, <<>>)
Str(cs) == Val("str", 0, cs, <<>>, <<>>)
Arr(its) == Val("arr", 0, <<>>, <<>>, its)
Obj(ks, its) == Val("obj", 0, <<>>, ks, its)
\* a string literal of the source, as a value
Lit(s) == Str(<<W(s)>>)

\* index of key k in the key list ks, 0 when absent
KeyIndex(ks, k) ==
  IF \E j \in 1..Len(ks) : ks[j] = k
  THEN CHOOSE j \in 1..Len(ks) : ks[j] = k /\ \A m \in 1..Len(ks) : ks[m] = k => m <= j
  ELSE 0

\* o[k] = v on an object: a repeated key keeps its place and takes the new value
ObjSet(o, k, v) ==
  LET j == KeyIndex(o.keys, k)
  IN IF j = 0 THEN Obj(Append(o.keys, k), Append(o.items, v))
     ELSE Obj(o.keys, [o.items EXCEPT ![j] = v])

\* v.k : property access; undefined on anything that has no own property k
\* (the keys read by the handler are not built-in properties of any value)
Get(v, k) ==
  IF v.kind = "obj" /\ KeyIndex(v.keys, k) # 0
  THEN v.items[KeyIndex(v.keys, k)]
  ELSE Undefined

\* property access on null or undefined throws a TypeError
GetThrows(v) == v.kind \in {"null", "undefined"}

(***************************************************************************)
(* JSON.parse: recursive descent over the units of a text.  A result is    *)
(* [ok, val, next]: whether a value was read, the value, and the index of  *)
(* the first unit after it.                                                *)
(***************************************************************************)
\* F(x), with x evaluated once
With(x, F(_)) == CHOOSE y \in {F(v) : v \in {x}} : TRUE

ParseFail == [ok |-> FALSE, val |-> Undefined, next |-> 0]
ParseOk(v, i) == [ok |-> TRUE, val |-> v, next |-> i]

Unescape(u) == IF u.c = "esc" THEN P(u.s) ELSE u

\* the characters of a string whose opening quote precedes index i
RECURSIVE ParseString(_, _, _)
ParseString(t, i, acc) ==
  IF i > Len(t) THEN ParseFail
  ELSE IF t[i] = Q THEN ParseOk(Str(acc), i + 1)
  ELSE ParseString(t, i + 1, Append(acc, Unescape(t[i])))

RECURSIVE ParseValue(_, _)
RECURSIVE ParseElements(_, _, _)
RECURSIVE ParseMembers(_, _, _)

ParseValue(t, i) ==
  IF i > Len(t) THEN ParseFail
  ELSE LET u == t[i] IN
    CASE u = Q -> ParseString(t, i + 1, <<>>)
      [] u.c = "num" -> ParseOk(Num(u.n), i + 1)
      [] u = W("null") -> ParseOk(Null, i + 1)
      [] u = W("true") -> ParseOk(Bool(TRUE), i + 1)
      [] u = W("false") -> ParseOk(Bool(FALSE), i + 1)
      [] u = LBracket ->
           IF i + 1 <= Len(t) /\ t[i + 1] = RBracket
           THEN ParseOk(Arr(<<>>), i + 2)
           ELSE ParseElements(t, i + 1, <<>>)
      [] u = LBrace ->
           IF i + 1 <= Len(t) /\ t[i + 1] = RBrace
           THEN ParseOk(Obj(<<>>, <<>>), i + 2)
           ELSE ParseMembers(t, i + 1, Obj(<<>>, <<>>))
      [] OTHER -> ParseFail

\* the rest of an array after its element r
ElementsAfter(t, acc, r) ==
  IF ~r.ok \/ r.next > Len(t) THEN ParseFail
  ELSE IF t[r.next] = RBracket THEN ParseOk(Arr(Append(acc, r.val)), r.next + 1)
  ELSE IF t[r.next] = Comma THEN ParseElements(t, r.next + 1, Append(acc, r.val))
  ELSE ParseFail

\* the elements of an array, from index i, after the elements in acc
ParseElements(t, i, acc) ==
  With(ParseValue(t, i), LAMBDA r : ElementsAfter(t, acc, r))

\* the rest of an object after the value r of its member named k
MembersAfter(t, acc, k, r) ==
  IF ~r.ok \/ r.next > Len(t) THEN ParseFail
  ELSE IF t[r.next] = RBrace THEN ParseOk(ObjSet(acc, k, r.val), r.next + 1)
  ELSE IF t[r.next] = Comma THEN ParseMembers(t, r.next + 1, ObjSet(acc, k, r.val))
  ELSE ParseFail

\* the rest of an object after the name k of a member
MemberValue(t, acc, k) ==
  IF ~k.ok \/ k.next > Len(t) \/ t[k.next] # Colon THEN ParseFail
  ELSE With(ParseValue(t, k.next + 1), LAMBDA r : MembersAfter(t, acc, k.val.chars, r))

\* the members of an object, from index i, after the members in acc
ParseMembers(t, i, acc) ==
  IF i > Len(t) \/ t[i] # Q THEN ParseFail
  ELSE With(ParseString(t, i + 1, <<>>), LAMBDA k : MemberValue(t, acc, k))

\* JSON.parse(t) throws (SyntaxError) unless the whole text is one value
JsonValid(t) ==
  With(ParseValue(t, 1), LAMBDA r : r.ok /\ r.next = Len(t) + 1)

JsonParse(t) == ParseValue(t, 1).val

(***************************************************************************)
(* JSON.stringify: a quote inside a string is escaped; a property whose    *)
(* value is undefined is omitted.                                          *)
(***************************************************************************)
Escape(u) == IF u = Q THEN Esc(u.s) ELSE u

QuoteString(cs) == <<Q>> \o [j \in 1..Len(cs) |-> Escape(cs[j])] \o <<Q>>

RECURSIVE JsonStringify(_)
RECURSIVE StringifyElements(_, _)
RECURSIVE StringifyMembers(_, _, _)

JsonStringify(v) ==
  CASE v.kind = "null" -> <<W("null")>>
    [] v.kind = "bool" -> IF v.num = 1 THEN <<W("true")>> ELSE <<W("false")>>
    [] v.kind = "num" -> <<N(v.num)>>
    [] v.kind = "str" -> QuoteString(v.chars)
    [] v.kind = "arr" -> <<LBracket>> \o StringifyElements(v.items, 1) \o <<RBracket>>
    [] v.kind = "obj" -> <<LBrace>> \o StringifyMembers(v, 1, TRUE) \o <<RBrace>>
    [] OTHER -> <<>>

StringifyElements(its, j) ==
  IF j > Len(its) THEN <<>>
  ELSE (IF j > 1 THEN <<Comma>> ELSE <<>>)
       \o (IF its[j].kind = "undefined" THEN <<W("null")>> ELSE JsonStringify(its[j]))
       \o StringifyElements(its, j + 1)

\* first: no member has been written yet
StringifyMembers(o, j, first) ==
  IF j > Len(o.keys) THEN <<>>
  ELSE IF o.items[j].kind = "undefined" THEN StringifyMembers(o, j + 1, first)
  ELSE (IF first THEN <<>> ELSE <<Comma>>)
       \o QuoteString(o.keys[j]) \o <<Colon>> \o JsonStringify(o.items[j])
       \o StringifyMembers(o, j + 1, FALSE)

(***************************************************************************)
(* Environment and requests.  An optional string (an environment variable, *)
(* a header) is [set, v]: process.env.X is undefined and headers.get(..)   *)
(* is null when set is FALSE.                                              *)
(***************************************************************************)
Unset == [set |-> FALSE, v |-> ""]
Set(s) == [set |-> TRUE, v |-> s]
\* JavaScript truthiness of an optional string: neither absent nor ""
Truthy(o) == o.set /\ o.v # ""

K(s) == <<W(s)>>
JStr(s) == <<Q, W(s), Q>>

\* request bodies
BodyValid == <<LBrace>> \o JStr("subreddit") \o <<Colon>> \o JStr("test") \o <<Comma>>
             \o JStr("query") \o <<Colon>> \o JStr("foo") \o <<RBrace>>
BodyWithSize == <<LBrace>> \o JStr("subreddit") \o <<Colon>> \o JStr("test") \o <<Comma>>
                \o JStr("query") \o <<Colon>> \o JStr("foo") \o <<Comma>>
                \o JStr("size") \o <<Colon, N(10), RBrace>>
BodyRepeatedKey == <<LBrace>> \o JStr("subreddit") \o <<Colon, N(1), Comma>>
                   \o JStr("subreddit") \o <<Colon>> \o JStr("test") \o <<Comma>>
                   \o JStr("query") \o <<Colon>> \o JStr("foo") \o <<RBrace>>
BodyNoQuery == <<LBrace>> \o JStr("subreddit") \o <<Colon>> \o JStr("test") \o <<RBrace>>
BodyNumericSubreddit == <<LBrace>> \o JStr("subreddit") \o <<Colon, N(1), Comma>>
                        \o JStr("query") \o <<Colon>> \o JStr("foo") \o <<RBrace>>
BodyNullQuery == <<LBrace>> \o JStr("subreddit") \o <<Colon>> \o JStr("test") \o <<Comma>>
                 \o JStr("query") \o <<Colon, W("null"), RBrace>>
BodyEmptyObject == <<LBrace, RBrace>>
BodyArray == <<LBracket>> \o JStr("test") \o <<RBracket>>
BodyString == JStr("test")
BodyNumber == <<N(1)>>
BodyTrue == <<W("true")>>
BodyNull == <<W("null")>>
BodyUnclosed == <<LBrace>> \o JStr("subreddit")
BodyEmpty == <<>>
BodyPlain == <<W("plain text")>>

RequestBodies ==
  { BodyValid, BodyWithSize, BodyRepeatedKey, BodyNoQuery, BodyNumericSubreddit,
    BodyNullQuery, BodyEmptyObject, BodyArray, BodyString, BodyNumber, BodyTrue,
    BodyNull, BodyUnclosed, BodyEmpty, BodyPlain }

Methods == {"POST", "GET"}
KeyHeaders == {Unset, Set(""), Set("k1"), Set("k2")}
Requests == [method : Methods, key : KeyHeaders, body : RequestBodies]

Envs == [wrapperKey : {Unset, Set(""), Set("k1")},
         bridgeUrl : {Unset, Set(""), Set("https://bridge")},
         bypassSecret : {Unset, Set("b1")}]

\* upstream replies
UpstreamStatuses == {200, 204, 304, 503}
TextAlphabet == {LBracket, RBracket, Q, W("null"), W("plain text"), N(1)}
TextComments == <<LBrace>> \o JStr("comments") \o <<Colon, LBracket, RBracket, RBrace>>
TextQuoted == JStr("plain text")
UpstreamTexts ==
  UNION {[1..n -> TextAlphabet] : n \in 0..MaxTextLen} \cup {TextComments, TextQuoted}

\* values a rejected promise can carry: [nullish, message] where message is
\* the value of the thrown value's message property
Thrown(m) == [nullish |-> FALSE, message |-> m]
ThrownNullish == [nullish |-> TRUE, message |-> Undefined]
ThrownValues ==
  { Thrown(Lit("fetch failed")),   \* an Error with a message
    Thrown(Str(<<>>)),             \* an Error with an empty message
    Thrown(Undefined),             \* a thrown string or plain object
    Thrown(Num(7)),                \* an object whose message is not a string
    ThrownNullish }                \* throw null / throw undefined

\* the TypeError of a property read on null
NullReadError == Thrown(Lit("Cannot read properties of null (reading 'subreddit')"))

(***************************************************************************)
(* State.  env is the process environment; inv[i] is invocation i:         *)
(*   req      the inbound request                                           *)
(*   pc       where the invocation is suspended                             *)
(*   body     the parsed request body                                       *)
(*   sent     the calls dispatched to the upstream                          *)
(*   up       what the upstream did: the status of its reply, its text,     *)
(*            the value a rejected promise carried                          *)
(*   data     the parsed-or-raw upstream body                               *)
(*   out      the responses returned to the runtime                         *)
(***************************************************************************)
VARIABLES env, inv
vars == <<env, inv>>

NoUpstream == [fetch |-> "pending", status |-> 0, read |-> "pending", text |-> <<>>,
               thrown |-> ThrownNullish]

NewInvocation(q) ==
  [req |-> q, pc |-> "start", body |-> Undefined, sent |-> <<>>, up |-> NoUpstream,
   data |-> Undefined, out |-> <<>>]

\* a request kept in a module-level slot shared by the invocations
RequestOfShared(i) == inv[1].req

\* the request parameter of invocation i
RequestOf(i) == inv[i].req

\* json(data, status)
json(data, status) ==
  [status |-> status, contentType |-> "application/json", body |-> JsonStringify(data)]

ErrorBody(msg) == Obj(<<K("error")>>, <<Lit(msg)>>)

\* return resp from the handler
Return(r, resp) == [r EXCEPT !.out = Append(@, resp), !.pc = "done"]

\* typeof err?.message === "string"
MessageIsString(err) == ~err.nullish /\ err.message.kind = "str"

\* no outer catch clause: the fault leaves the handler
OuterCatchRethrows(r, err) == [r EXCEPT !.pc = "escaped"]

\* the outer catch clause
OuterCatch(r, err) ==
  Return(r, json(Obj(<<K("error"), K("detail")>>,
                     << Lit("Unexpected server error."),
                        IF MessageIsString(err) THEN err.message ELSE Lit("Unknown error") >>),
                 500))

\* !header only: any present header is let through
AuthFailsAbsentOnly(header, wrapperKey) == ~Truthy(header)

\* !header || header !== wrapperKey
AuthFails(header, wrapperKey) == ~Truthy(header) \/ header.v # wrapperKey

\* the handler up to its first await, without the upstream URL check
EnterStepUrlUnchecked(r, q, e) ==
  IF q.method # "POST" THEN Return(r, json(ErrorBody("Method not allowed. Use POST."), 405))
  ELSE IF Truthy(e.wrapperKey) /\ AuthFails(q.key, e.wrapperKey.v)
       THEN Return(r, json(ErrorBody("Unauthorised."), 401))
  ELSE [r EXCEPT !.pc = "readBody"]

\* the handler up to its first await (request.json())
EnterStep(r, q, e) ==
  IF q.method # "POST" THEN Return(r, json(ErrorBody("Method not allowed. Use POST."), 405))
  ELSE IF Truthy(e.wrapperKey) /\ AuthFails(q.key, e.wrapperKey.v)
       THEN Return(r, json(ErrorBody("Unauthorised."), 401))
  ELSE IF ~Truthy(e.bridgeUrl)
       THEN Return(r, json(ErrorBody("Server misconfigured: REDDIT_BRIDGE_URL not set."), 500))
  ELSE [r EXCEPT !.pc = "readBody"]

\* the normalised payload
Payload(body) ==
  Obj(<<K("subreddit"), K("query"), K("size"), K("before"), K("after")>>,
      <<Get(body, K("subreddit")), Get(body, K("query")), Get(body, K("size")),
        Get(body, K("before")), Get(body, K("after"))>>)

\* the call fetch(bridgeUrl, {method, headers, body})
UpstreamCall(e, body) ==
  [url |-> e.bridgeUrl.v, method |-> "POST", contentType |-> "application/json",
   bypass |-> IF Truthy(e.bypassSecret) THEN e.bypassSecret ELSE Unset,
   body |-> JsonStringify(Payload(body))]

\* the call is issued twice
DispatchTwice(r, call) == [r EXCEPT !.sent = Append(Append(@, call), call), !.pc = "fetching"]

\* fetch(..) is called: the call leaves the process
Dispatch(r, call) == [r EXCEPT !.sent = Append(@, call), !.pc = "fetching"]

\* from the field check to the second await (fetch), body being the parsed body
ValidateAndSend(r, e, body) ==
  IF GetThrows(body) THEN OuterCatch([r EXCEPT !.body = body], NullReadError)
  ELSE IF Get(body, K("subreddit")).kind # "str" \/ Get(body, K("query")).kind # "str"
       THEN Return([r EXCEPT !.body = body],
                   json(ErrorBody("Body must include string fields 'subreddit' and 'query'."), 400))
  ELSE Dispatch([r EXCEPT !.body = body], UpstreamCall(e, body))

\* from the completion of request.json() to the second await (fetch)
BodyStep(r, q, e) ==
  IF ~JsonValid(q.body) THEN Return(r, json(ErrorBody("Request body must be valid JSON."), 400))
  ELSE With(JsonParse(q.body), LAMBDA body : ValidateAndSend(r, e, body))

\* Response.ok
Ok(status) == status \in 200..299

\* a body that does not parse is dropped
ParseOrRawNull(text) == IF JsonValid(text) THEN JsonParse(text) ELSE Null

\* try { data = JSON.parse(text) } catch { data = text }
ParseOrRaw(text) == IF JsonValid(text) THEN JsonParse(text) ELSE Str(text)

\* the translation with the response's own status in place of the upstream's
TranslateOwnStatus(e, status, data) ==
  IF ~Ok(status)
  THEN json(Obj(<<K("error"), K("status"), K("detail")>>,
                <<Lit("Upstream bridge error."), Num(502), data>>), 502)
  ELSE json(Obj(<<K("ok"), K("bridge_status"), K("bridge_url"), K("data")>>,
                <<Bool(TRUE), Num(200), Lit(e.bridgeUrl.v), data>>), 200)

\* the translation of the upstream outcome
Translate(e, status, data) ==
  IF ~Ok(status)
  THEN json(Obj(<<K("error"), K("status"), K("detail")>>,
                <<Lit("Upstream bridge error."), Num(status), data>>), 502)
  ELSE json(Obj(<<K("ok"), K("bridge_status"), K("bridge_url"), K("data")>>,
                <<Bool(TRUE), Num(status), Lit(e.bridgeUrl.v), data>>), 200)

\* fetch resolved with a reply of the given status
FetchResolveStep(r, status) ==
  [r EXCEPT !.up.fetch = "resolved", !.up.status = status, !.pc = "readText"]

\* fetch rejected
FetchRejectStep(r, err) ==
  OuterCatch([r EXCEPT !.up.fetch = "rejected", !.up.thrown = err], err)

\* the response once the upstream body has been turned into data
Relay(r, e, text, data) ==
  Return([r EXCEPT !.up.read = "resolved", !.up.text = text, !.data = data],
         Translate(e, r.up.status, data))

\* upstream.text() resolved
TextResolveStep(r, e, text) ==
  With(ParseOrRaw(text), LAMBDA data : Relay(r, e, text, data))

\* upstream.text() rejected
TextRejectStep(r, err) ==
  OuterCatch([r EXCEPT !.up.read = "rejected", !.up.thrown = err], err)

(***************************************************************************)
(* Actions: one per run of the handler between two suspension points.      *)
(***************************************************************************)
Enter(i) ==
  /\ inv[i].pc = "start"
  /\ inv' = [inv EXCEPT ![i] = EnterStep(inv[i], RequestOf(i), env)]
  /\ UNCHANGED env

BodyRead(i) ==
  /\ inv[i].pc = "readBody"
  /\ inv' = [inv EXCEPT ![i] = BodyStep(inv[i], RequestOf(i), env)]
  /\ UNCHANGED env

FetchResolve(i, statuses) ==
  /\ inv[i].pc = "fetching"
  /\ \E status \in statuses : inv' = [inv EXCEPT ![i] = FetchResolveStep(inv[i], status)]
  /\ UNCHANGED env

FetchReject(i, thrown) ==
  /\ inv[i].pc = "fetching"
  /\ \E err \in thrown : inv' = [inv EXCEPT ![i] = FetchRejectStep(inv[i], err)]
  /\ UNCHANGED env

TextResolve(i, texts) ==
  /\ inv[i].pc = "readText"
  /\ \E text \in texts : inv' = [inv EXCEPT ![i] = TextResolveStep(inv[i], env, text)]
  /\ UNCHANGED env

TextReject(i, thrown) ==
  /\ inv[i].pc = "readText"
  /\ \E err \in thrown : inv' = [inv EXCEPT ![i] = TextRejectStep(inv[i], err)]
  /\ UNCHANGED env

(***************************************************************************)
(* One invocation, every request, environment and upstream behaviour.      *)
(***************************************************************************)
Init ==
  /\ env \in Envs
  /\ \E q \in Requests : inv = <<NewInvocation(q)>>

Next ==
  \E i \in DOMAIN inv :
    \/ Enter(i)
    \/ BodyRead(i)
    \/ FetchResolve(i, UpstreamStatuses)
    \/ FetchReject(i, ThrownValues)
    \/ TextResolve(i, UpstreamTexts)
    \/ TextReject(i, ThrownValues)

Spec == Init /\ [][Next]_vars

(***************************************************************************)
(* One invocation under the scheduling of the runtime: a suspended handler *)
(* is resumed once its promise settles, and the upstream either replies or *)
(* fails.  The upstream bodies are a sample of JSON and non-JSON texts.    *)
(***************************************************************************)
FairTexts == {TextComments, TextQuoted, <<W("plain text")>>, <<>>, <<N(1)>>, <<LBracket>>}

NextFair ==
  \E i \in DOMAIN inv :
    \/ Enter(i)
    \/ BodyRead(i)
    \/ FetchResolve(i, UpstreamStatuses)
    \/ FetchReject(i, ThrownValues)
    \/ TextResolve(i, FairTexts)
    \/ TextReject(i, ThrownValues)

FairSpec == Init /\ [][NextFair]_vars /\ WF_vars(NextFair)

(***************************************************************************)
(* Several invocations interleaved by the runtime, sharing the             *)
(* environment.                                                            *)
(***************************************************************************)
ConcRequests ==
  { [method |-> "POST", key |-> Set("k1"), body |-> BodyValid],
    [method |-> "POST", key |-> Unset, body |-> BodyWithSize],
    [method |-> "POST", key |-> Set("k1"), body |-> BodyNull],
    [method |-> "GET", key |-> Set("k1"), body |-> BodyValid] }

ConcEnvs ==
  { [wrapperKey |-> Set("k1"), bridgeUrl |-> Set("https://bridge"), bypassSecret |-> Set("b1")],
    [wrapperKey |-> Unset, bridgeUrl |-> Set("https://bridge"), bypassSecret |-> Unset] }

ConcStatuses == {200, 503}
ConcTexts == {TextComments, <<W("plain text")>>}
ConcThrown == {Thrown(Lit("fetch failed"))}

InitConc ==
  /\ env \in ConcEnvs
  /\ inv \in [1..NumInvocations -> {NewInvocation(q) : q \in ConcRequests}]

NextConc ==
  \E i \in DOMAIN inv :
    \/ Enter(i)
    \/ BodyRead(i)
    \/ FetchResolve(i, ConcStatuses)
    \/ FetchReject(i, ConcThrown)
    \/ TextResolve(i, ConcTexts)
    \/ TextReject(i, ConcThrown)

ConcSpec == InitConc /\ [][NextConc]_vars

\* the handler run on its own: request q, environment e, upstream behaviour
\* up; the states it passes through, the last one being where it ends (or
\* where it waits, as long as up is pending)
RunAlone(q, e, up) ==
  LET r0 == NewInvocation(q)
      r1 == EnterStep(r0, q, e)
      r2 == IF r1.pc = "readBody" THEN BodyStep(r1, q, e) ELSE r1
      r3 == IF r2.pc # "fetching" THEN r2
            ELSE IF up.fetch = "resolved" THEN FetchResolveStep(r2, up.status)
            ELSE IF up.fetch = "rejected" THEN FetchRejectStep(r2, up.thrown)
            ELSE r2
      r4 == IF r3.pc # "readText" THEN r3
            ELSE IF up.read = "resolved" THEN TextResolveStep(r3, e, up.text)
            ELSE IF up.read = "rejected" THEN TextRejectStep(r3, up.thrown)
            ELSE r3
  IN <<r0, r1, r2, r3, r4>>

(***************************************************************************)
(* Vocabulary of the properties.                                           *)
(***************************************************************************)
Done(r) == r.pc = "done"
Status(r) == r.out[1].status
\* a field of the response document, read back from the serialised body
Field(r, k) == Get(JsonParse(r.out[1].body), K(k))
Statuses == {200, 400, 401, 405, 500, 502}

KeyConfigured(e) == e.wrapperKey.set /\ e.wrapperKey.v # ""
HeaderMatches(q, e) == q.key.set /\ q.key.v = e.wrapperKey.v
AuthPassed(q, e) == KeyConfigured(e) => HeaderMatches(q, e)
UrlConfigured(e) == e.bridgeUrl.set /\ e.bridgeUrl.v # ""
\* field k of the parsed body is present and a string
StringField(b, k) ==
  /\ b.kind = "obj"
  /\ \E j \in 1..Len(b.keys) : b.keys[j] = K(k) /\ b.items[j].kind = "str"
FieldsValid(q) ==
  /\ JsonValid(q.body)
  /\ StringField(JsonParse(q.body), "subreddit")
  /\ StringField(JsonParse(q.body), "query")
\* every check of the handler passes
Accepted(q, e) ==
  q.method = "POST" /\ AuthPassed(q, e) /\ UrlConfigured(e) /\ FieldsValid(q)
\* the upstream body as relayed: the parsed value, or the raw text
Relayed(text) == IF JsonValid(text) THEN JsonParse(text) ELSE Str(text)
NonEmptyString(v) == v.kind = "str" /\ v.chars # <<>>

(***************************************************************************)
(* Properties.                                                             *)
(***************************************************************************)

\* C1: one invocation ends with exactly one response, whose status is one
\* of 200, 400, 401, 405, 500, 502; until then there is no response, no
\* fault leaves the handler, and the invocation does end.
C1_OneResponse ==
  /\ [](\A i \in DOMAIN inv :
          /\ inv[i].pc \in {"start", "readBody", "fetching", "readText", "done"}
          /\ Len(inv[i].out) = (IF Done(inv[i]) THEN 1 ELSE 0)
          /\ Done(inv[i]) => Status(inv[i]) \in Statuses /\ JsonValid(inv[i].out[1].body))
  /\ <>(\A i \in DOMAIN inv : Done(inv[i]))

\* an invocation answered after the read of the upstream body failed
C1_Witness ==
  \E i \in DOMAIN inv :
    Done(inv[i]) /\ inv[i].up.read = "rejected" /\ Len(inv[i].out) = 1 /\ Status(inv[i]) = 500

\* C2: a POST that passed authentication, with the upstream URL configured,
\* whose body is JSON but lacks a string subreddit or query, is answered 400
\* with the field-validation error, and nothing is sent upstream.
C2_InvalidFields400 ==
  \A i \in DOMAIN inv :
    LET q == inv[i].req IN
    ( /\ Done(inv[i])
      /\ q.method = "POST" /\ AuthPassed(q, env) /\ UrlConfigured(env)
      /\ JsonValid(q.body) /\ ~FieldsValid(q) )
    => /\ Status(inv[i]) = 400
       /\ Field(inv[i], "error") = Lit("Body must include string fields 'subreddit' and 'query'.")
       /\ inv[i].sent = <<>>

\* C3 as stated: with no upstream URL every invocation is answered 500 with
\* the misconfiguration error, without reading the body or calling upstream.
C3_Unconfigured500 ==
  \A i \in DOMAIN inv :
    ~UrlConfigured(env) =>
      /\ inv[i].pc \in {"start", "done"} /\ inv[i].body = Undefined /\ inv[i].sent = <<>>
      /\ Done(inv[i]) =>
           /\ Status(inv[i]) = 500
           /\ Field(inv[i], "error") = Lit("Server misconfigured: REDDIT_BRIDGE_URL not set.")

\* C3 amended: with no upstream URL, a POST that passes the wrapper
\* authentication is answered 500 with the misconfiguration error whatever
\* its body is; the body is not read and nothing is sent upstream.
C3_Unconfigured500Post ==
  \A i \in DOMAIN inv :
    LET q == inv[i].req IN
    ~UrlConfigured(env) =>
      /\ inv[i].pc \in {"start", "done"} /\ inv[i].body = Undefined /\ inv[i].sent = <<>>
      /\ (Done(inv[i]) /\ q.method = "POST" /\ AuthPassed(q, env)) =>
           /\ Status(inv[i]) = 500
           /\ Field(inv[i], "error") = Lit("Server misconfigured: REDDIT_BRIDGE_URL not set.")

\* an authenticated POST with a valid body answered 500 for the missing URL
C3_Witness ==
  \E i \in DOMAIN inv :
    /\ Done(inv[i]) /\ ~UrlConfigured(env) /\ KeyConfigured(env)
    /\ inv[i].req.method = "POST" /\ HeaderMatches(inv[i].req, env)
    /\ FieldsValid(inv[i].req) /\ Status(inv[i]) = 500

\* C4 as stated: with a wrapper key configured, an absent or different
\* x-mcp-key header gives 401; a matching header, or no configured key,
\* never gives 401.
C4_Auth401 ==
  \A i \in DOMAIN inv :
    LET q == inv[i].req IN
    Done(inv[i]) =>
      /\ (KeyConfigured(env) /\ ~HeaderMatches(q, env)) => Status(inv[i]) = 401
      /\ (~KeyConfigured(env) \/ HeaderMatches(q, env)) => Status(inv[i]) # 401

\* C4 amended: for a POST request, a configured wrapper key and an absent or
\* different x-mcp-key header give 401; for any request, a matching header,
\* or no configured key, never gives 401.
C4_Auth401Post ==
  \A i \in DOMAIN inv :
    LET q == inv[i].req IN
    Done(inv[i]) =>
      /\ (q.method = "POST" /\ KeyConfigured(env) /\ ~HeaderMatches(q, env))
           => /\ Status(inv[i]) = 401
              /\ Field(inv[i], "error") = Lit("Unauthorised.")
      /\ (~KeyConfigured(env) \/ HeaderMatches(q, env)) => Status(inv[i]) # 401

\* a POST with a wrong key refused although everything else is in order
C4_Witness ==
  \E i \in DOMAIN inv :
    /\ Done(inv[i]) /\ inv[i].req.method = "POST" /\ UrlConfigured(env)
    /\ KeyConfigured(env) /\ inv[i].req.key.set /\ inv[i].req.key.v # ""
    /\ ~HeaderMatches(inv[i].req, env) /\ FieldsValid(inv[i].req)
    /\ Status(inv[i]) = 401

\* C5 as stated: every invocation makes exactly one upstream call.
C5_ExactlyOneCall ==
  \A i \in DOMAIN inv : Done(inv[i]) => Len(inv[i].sent) = 1

\* C5 amended: an invocation never makes more than one upstream call; a
\* finished invocation has made exactly one if its request passed every
\* check (POST, authentication, URL configured, string fields) and none
\* otherwise.
C5_AtMostOneCall ==
  \A i \in DOMAIN inv :
    /\ Len(inv[i].sent) <= 1
    /\ Done(inv[i]) => (Len(inv[i].sent) = 1 <=> Accepted(inv[i].req, env))
    /\ inv[i].pc \in {"fetching", "readText"} => Len(inv[i].sent) = 1

\* a finished invocation whose upstream replied not-ok, still with one call
C5_Witness ==
  \E i \in DOMAIN inv :
    /\ Done(inv[i]) /\ Len(inv[i].sent) = 1 /\ inv[i].up.read = "resolved"
    /\ inv[i].up.status = 503

\* C6: when the upstream call throws, whatever the thrown value, the
\* response is 500 with error "Unexpected server error." and a non-empty
\* detail.
C6_ThrowNonEmptyDetail ==
  \A i \in DOMAIN inv :
    (Done(inv[i]) /\ inv[i].up.fetch = "rejected") =>
      /\ Status(inv[i]) = 500
      /\ Field(inv[i], "error") = Lit("Unexpected server error.")
      /\ NonEmptyString(Field(inv[i], "detail"))

\* C7: once the upstream has replied (status and body), the response is 502
\* exactly when the reply is not ok and 200 exactly when it is; 502 carries
\* the upstream status under status and the upstream body under detail; 200
\* carries ok: true, the upstream status, the configured URL and the body.
C7_ReplyTranslation ==
  \A i \in DOMAIN inv :
    LET r == inv[i] IN
    (Done(r) /\ r.up.read = "resolved") =>
      /\ Status(r) = 502 <=> ~(r.up.status \in 200..299)
      /\ Status(r) = 200 <=> r.up.status \in 200..299
      /\ Status(r) = 502 =>
           /\ Field(r, "status") = Num(r.up.status)
           /\ Field(r, "detail") = Relayed(r.up.text)
      /\ Status(r) = 200 =>
           /\ Field(r, "ok") = Bool(TRUE)
           /\ Field(r, "bridge_status") = Num(r.up.status)
           /\ Field(r, "bridge_url") = Lit(env.bridgeUrl.v)
           /\ Field(r, "data") = Relayed(r.up.text)

\* a 503 reply with a JSON body relayed as 502
C7_Witness ==
  \E i \in DOMAIN inv :
    /\ Done(inv[i]) /\ inv[i].up.read = "resolved"
    /\ inv[i].up.status = 503 /\ inv[i].up.text = TextComments
    /\ Status(inv[i]) = 502 /\ Field(inv[i], "status") = Num(503)

\* C8: an upstream body that is not JSON is no error: the status follows the
\* ok flag alone and data (200) or detail (502) is the raw text; a body that
\* is JSON is relayed as its parsed value.
C8_RawTextFallback ==
  \A i \in DOMAIN inv :
    LET r == inv[i]
        relayed == IF Status(r) = 200 THEN Field(r, "data") ELSE Field(r, "detail")
    IN (Done(r) /\ r.up.read = "resolved") =>
         /\ Status(r) = (IF Ok(r.up.status) THEN 200 ELSE 502)
         /\ ~JsonValid(r.up.text) => relayed = Str(r.up.text)
         /\ JsonValid(r.up.text) => relayed = ParseValue(r.up.text, 1).val

\* a reply whose body is the bare text: plain text
C8_Witness ==
  \E i \in DOMAIN inv :
    /\ Done(inv[i]) /\ inv[i].up.read = "resolved"
    /\ inv[i].up.text = <<W("plain text")>>
    /\ Field(inv[i], "data") = Str(<<W("plain text")>>)

\* C9: under any interleaving, each invocation's state (its response and
\* its outbound call included) is what the handler run alone produces from
\* the invocation's own request, the environment and the behaviour of its
\* own upstream call.
C9_Independent ==
  \A i \in DOMAIN inv :
    LET alone == RunAlone(inv[i].req, env, inv[i].up)
    IN /\ \E k \in 1..5 : inv[i] = alone[k]
       /\ Done(inv[i]) => inv[i] = alone[5]

\* two invocations with different requests, both finished, one relayed a
\* reply and the other was refused
C9_Witness ==
  \E i, j \in DOMAIN inv :
    /\ i # j /\ inv[i].req # inv[j].req
    /\ Done(inv[i]) /\ Done(inv[j])
    /\ Status(inv[i]) = 200 /\ Status(inv[j]) = 405

\* C10: the checks run in order and the first failure decides: method 405,
\* authentication 401, configuration 500, JSON parse 400, field validation
\* 400; an upstream call is sent only for a request that passes them all.
C10_CheckOrder ==
  \A i \in DOMAIN inv :
    LET r == inv[i]
        q == inv[i].req
    IN /\ r.sent # <<>> => Accepted(q, env)
       /\ Done(r) =>
            IF q.method # "POST" THEN Status(r) = 405
            ELSE IF ~AuthPassed(q, env) THEN Status(r) = 401
            ELSE IF ~UrlConfigured(env) THEN Status(r) = 500
            ELSE IF ~JsonValid(q.body)
                 THEN /\ Status(r) = 400
                      /\ Field(r, "error") = Lit("Request body must be valid JSON.")
            ELSE IF ~FieldsValid(q)
                 THEN /\ Status(r) = 400
                      /\ Field(r, "error") = Lit("Body must include string fields 'subreddit' and 'query'.")
            ELSE Status(r) \in {200, 500, 502}

====
